---- MODULE Spec2Model ----
(***************************************************************************)
(* A model of the ingestion planner (src/src/core/ingest.py), of the       *)
(* ingest endpoint with its project registry (src/src/api/routes.py) and   *)
(* of the chat endpoints with their session store (src/src/api/session.py).*)
(*                                                                         *)
(* Text is modelled as a sequence of one-character strings, so that        *)
(* lower-casing, trimming, separator replacement and glob matching are     *)
(* computed character by character, as the Python code computes them.      *)
(* Tags and project identifiers, on which the code performs no character   *)
(* operation, are plain strings.                                           *)
(*                                                                         *)
(* Five specifications share the module:                                   *)
(*   TagSpec  - the tag classifier applied to bounded paths and rule sets  *)
(*   DescSpec - a sequence of ensure_description calls on one project      *)
(*   PlanSpec - plan_project applied to bounded project trees              *)
(*   Spec     - concurrent ingest requests against one data root and the   *)
(*              shared project registry                                    *)
(*   SessSpec - concurrent chat and lock requests against the session      *)
(*              store                                                      *)
(***************************************************************************)
EXTENDS Integers, Sequences, FiniteSets, TLC

VARIABLES
    tg_cfg,     \* TagSpec: the parsed configuration document (a dict)
    tg_path,    \* TagSpec: the relative path last classified
    tg_out,     \* TagSpec: what the classifier computed for tg_path
    ds_file,    \* DescSpec: the project's description file
    ds_call,    \* DescSpec: the last ensure_description call and what it did
    ds_first,   \* DescSpec: the first auto-generation that persisted a text
    ds_n,       \* DescSpec: number of calls made so far
    pl_tree,    \* PlanSpec: the entries under the project root, in listing order
    pl_file,    \* PlanSpec: the project's description file
    pl_out,     \* PlanSpec: what plan_project returned or raised
    config_exists,      \* Spec: config/ingestion_rules.yaml exists
    data_root_exists,   \* Spec: the data root directory exists
    description,        \* Spec: the description file of each project directory
    registry,           \* Spec: ProjectRegistry._projects
    lock,               \* Spec: the holder of ProjectRegistry._lock
    req,                \* Spec: each request thread's position in ingest_projects
    calls,              \* Spec: ingest requests started so far
    committed,          \* Spec: the registry as the last finished update left it
    update_log,         \* Spec: the finished updates, in the order they finished
    rd,                 \* Spec: what the last registry.list() returned
    ss_sessions,    \* SessSpec: SessionStore._sessions, session id -> object
    ss_objs,        \* SessSpec: the SessionState objects allocated so far
    ss_pipeline,    \* SessSpec: rag._config is set (configure_pipeline was called)
    ss_req,         \* SessSpec: each request thread's position in its handler
    ss_n,           \* SessSpec: requests started so far
    ss_settled,     \* SessSpec: per session, the project of the last returned
                    \*           set_project when no clear or set_project began since
    ss_kept,        \* SessSpec: the finished chat requests since whose end no
                    \*           clear of their session began
    ss_stray        \* SessSpec: the requests one of whose writes went to an
                    \*           object the store did not hold at that moment

tagVars == <<tg_cfg, tg_path, tg_out>>

descVars == <<ds_file, ds_call, ds_first, ds_n>>

planVars == <<pl_tree, pl_file, pl_out>>

sysVars == <<config_exists, data_root_exists, description, registry, lock, req,
             calls, committed, update_log, rd>>

sessVars == <<ss_sessions, ss_objs, ss_pipeline, ss_req, ss_n, ss_settled,
              ss_kept, ss_stray>>

vars == <<tg_cfg, tg_path, tg_out, ds_file, ds_call, ds_first, ds_n,
          pl_tree, pl_file, pl_out,
          config_exists, data_root_exists, description, registry, lock, req,
          calls, committed, update_log, rd,
          ss_sessions, ss_objs, ss_pipeline, ss_req, ss_n, ss_settled,
          ss_kept, ss_stray>>

(***************************************************************************)
(* Text helpers                                                            *)
(***************************************************************************)
UpperChars == <<"A", "B", "C", "D", "E", "F", "G", "H", "I", "J", "K", "L", "M",
                "N", "O", "P", "Q", "R", "S", "T", "U", "V", "W", "X", "Y", "Z">>

LowerChars == <<"a", "b", "c", "d", "e", "f", "g", "h", "i", "j", "k", "l", "m",
                "n", "o", "p", "q", "r", "s", "t", "u", "v", "w", "x", "y", "z">>

\* str.lower() on one character
LowerChar(c) ==
    IF \E i \in 1..Len(UpperChars) : UpperChars[i] = c
    THEN LowerChars[CHOOSE i \in 1..Len(UpperChars) : UpperChars[i] = c]
    ELSE c

\* str.lower()
Lower(s) == [i \in 1..Len(s) |-> LowerChar(s[i])]

\* the characters str.strip() removes, among ASCII text: space, tab, line
\* feed, carriage return, form feed, vertical tab (0x0b) and the separators
\* 0x1c, 0x1d, 0x1e and 0x1f
Whitespace ==
    {" ", "\t", "\n", "\r", "\f", "", "", "", "", ""}

\* str.strip()
Strip(s) ==
    IF \A i \in 1..Len(s) : s[i] \in Whitespace
    THEN <<>>
    ELSE LET first == CHOOSE i \in 1..Len(s) :
                          /\ s[i] \notin Whitespace
                          /\ \A k \in 1..(i - 1) : s[k] \in Whitespace
             last  == CHOOSE i \in 1..Len(s) :
                          /\ s[i] \notin Whitespace
                          /\ \A k \in (i + 1)..Len(s) : s[k] \in Whitespace
         IN  SubSeq(s, first, last)

\* str.replace("\\", "/")
ReplaceBackslash(s) == [i \in 1..Len(s) |-> IF s[i] = "\\" THEN "/" ELSE s[i]]

\* seq backwards
Reverse(seq) == [i \in 1..Len(seq) |-> seq[Len(seq) + 1 - i]]

\* the orders in which iterdir may yield the entries of S
RECURSIVE Orders(_)
Orders(S) ==
    IF S = {} THEN {<<>>}
    ELSE UNION { {<<x>> \o rest : rest \in Orders(S \ {x})} : x \in S }

\* the sequences over S of length at most n
RECURSIVE SeqsUpTo(_, _)
SeqsUpTo(S, n) ==
    IF n = 0 THEN {<<>>}
    ELSE LET shorter == SeqsUpTo(S, n - 1) IN
         shorter \cup {Append(s, c) : s \in {t \in shorter : Len(t) = n - 1}, c \in S}

(***************************************************************************)
(* fnmatch.fnmatch on a POSIX host (os.path.normcase is the identity):     *)
(* '*' matches any run of characters, '/' included; '?' any one character; *)
(* '[seq]' one character of seq, '[!seq]' one character not in seq; a '['  *)
(* with no closing ']' is a literal.  Ranges ('-') are outside the         *)
(* alphabet the patterns are drawn from.                                   *)
(***************************************************************************)
\* index of the ']' closing the class opened by pat[1] = "[", or 0
ClassEnd(pat) ==
    LET n  == Len(pat)
        j1 == IF 2 <= n /\ pat[2] = "!" THEN 3 ELSE 2
        j2 == IF j1 <= n /\ pat[j1] = "]" THEN j1 + 1 ELSE j1
    IN  IF \E j \in j2..n : pat[j] = "]"
        THEN CHOOSE j \in j2..n : pat[j] = "]" /\ \A k \in j2..(j - 1) : pat[k] # "]"
        ELSE 0

\* does the class with contents stuff (between the brackets) accept c
ClassAccepts(stuff, c) ==
    IF stuff[1] = "!"
    THEN \A i \in 2..Len(stuff) : stuff[i] # c
    ELSE \E i \in 1..Len(stuff) : stuff[i] = c

RECURSIVE fnmatch(_, _)
fnmatch(name, pat) ==
    IF pat = <<>> THEN name = <<>>
    ELSE LET c == Head(pat) IN
         IF c = "*"
         THEN fnmatch(name, Tail(pat)) \/ (name # <<>> /\ fnmatch(Tail(name), pat))
         ELSE IF name = <<>> THEN FALSE
         ELSE IF c = "?" THEN fnmatch(Tail(name), Tail(pat))
         ELSE IF c = "["
         THEN LET j == ClassEnd(pat) IN
              IF j = 0
              THEN Head(name) = "[" /\ fnmatch(Tail(name), Tail(pat))
              ELSE /\ ClassAccepts(SubSeq(pat, 2, j - 1), Head(name))
                   /\ fnmatch(Tail(name), SubSeq(pat, j + 1, Len(pat)))
         ELSE Head(name) = c /\ fnmatch(Tail(name), Tail(pat))

(***************************************************************************)
(* Rule set: IngestionRules.from_dict, _normalize_rel_path, _collect_tags  *)
(***************************************************************************)
\* _normalize_rel_path: rel_path.replace("\\", "/").strip().lower()
_normalize_rel_path(rel_path) == Lower(Strip(ReplaceBackslash(rel_path)))

\* entry.get("path") is truthy: the key is present and its text is not empty
PathTruthy(entry) == "path" \in DOMAIN entry /\ entry.path # <<>>

\* entry.get("tag") is truthy: the key is present and the tag is not ""
TagTruthy(entry) == "tag" \in DOMAIN entry /\ entry.tag # ""

\* the pattern rules from_dict keeps: the items holding both keys, in order
RECURSIVE FromDictPatterns(_)
FromDictPatterns(items) ==
    IF items = <<>> THEN <<>>
    ELSE LET item == Head(items)
             rest == FromDictPatterns(Tail(items))
         IN  IF "match" \in DOMAIN item /\ "tag" \in DOMAIN item
             THEN <<[match |-> item.match, tag |-> item.tag]>> \o rest
             ELSE rest

\* forced_map.setdefault(normalized, set()).add(tag), one entry after another
RECURSIVE FromDictForced(_, _)
FromDictForced(entries, forced_map) ==
    IF entries = <<>> THEN forced_map
    ELSE LET entry == Head(entries) IN
             IF ~(PathTruthy(entry) /\ TagTruthy(entry))
             THEN FromDictForced(Tail(entries), forced_map)
             ELSE LET normalized == _normalize_rel_path(entry.path)
                      tag == entry.tag
                      old == IF normalized \in DOMAIN forced_map
                             THEN forced_map[normalized] ELSE {}
                  IN  FromDictForced(Tail(entries),
                         [k \in DOMAIN forced_map \cup {normalized} |->
                             IF k = normalized THEN old \cup {tag} ELSE forced_map[k]])

EmptyMap == [k \in {} |-> {}]

\* IngestionRules.from_dict
from_dict(data) ==
    [patterns |-> FromDictPatterns(IF "patterns" \in DOMAIN data
                                   THEN data.patterns ELSE <<>>),
     forced   |-> FromDictForced(IF "forced" \in DOMAIN data
                                 THEN data.forced ELSE <<>>, EmptyMap)]

\* the string the glob rules are matched against: relative_path.lower()
Lowered(relative_path) == Lower(relative_path)

\* the loop over rules.patterns of _collect_tags
RECURSIVE PatternLoop(_, _, _)
PatternLoop(lowered, patterns, tags) ==
    IF patterns = <<>> THEN tags
    ELSE LET pattern == Head(patterns) IN
         PatternLoop(lowered, Tail(patterns),
                     IF fnmatch(lowered, Lower(pattern.match))
                     THEN tags \cup {pattern.tag} ELSE tags)

\* a plausible slip: the forced tags replace the pattern tags instead of joining them
CollectTagsForcedOverrides(relative_path, rules) ==
    LET key == _normalize_rel_path(relative_path) IN
    IF key \in DOMAIN rules.forced /\ rules.forced[key] # {}
    THEN rules.forced[key]
    ELSE PatternLoop(Lowered(relative_path), rules.patterns, {})

\* _collect_tags
_collect_tags(relative_path, rules) ==
    LET tags == PatternLoop(Lowered(relative_path), rules.patterns, {})
        key  == _normalize_rel_path(relative_path)
        forced_tags == IF key \in DOMAIN rules.forced THEN rules.forced[key] ELSE {}
    IN  IF forced_tags # {} THEN tags \cup forced_tags ELSE tags

(***************************************************************************)
(* Description resolver: ensure_description                                *)
(***************************************************************************)
\* the default filename of ensure_description
DescriptionFilename ==
    <<"d", "e", "s", "c", "r", "i", "p", "t", "i", "o", "n", ".", "t", "x", "t">>

AbsentFile == [exists |-> FALSE, text |-> <<>>]

FileWith(text) == [exists |-> TRUE, text |-> text]

\* description_file.read_text(encoding="utf-8") on the characters the file
\* holds: the text is read with universal newlines, so "\r\n" and a lone
\* "\r" both arrive as "\n"; write_text stores the characters it is given
RECURSIVE read_text(_)
read_text(stored) ==
    IF stored = <<>> THEN <<>>
    ELSE IF Head(stored) = "\r"
    THEN <<"\n">> \o read_text(IF Len(stored) > 1 /\ stored[2] = "\n"
                                THEN Tail(Tail(stored))
                                ELSE Tail(stored))
    ELSE <<Head(stored)>> \o read_text(Tail(stored))

\* provider=None
NoProvider == [supplied |-> FALSE, behaviour |-> <<>>]

\* a callable: for each project directory name it returns a text or raises
Provider(behaviour) == [supplied |-> TRUE, behaviour |-> behaviour]

Returns(text) == [raises |-> FALSE, error |-> "", text |-> text]

Raises(error) == [raises |-> TRUE, error |-> error, text |-> <<>>]

NoMessage == [file |-> <<>>, project |-> <<>>]

\* a plausible slip: the provider's text is validated only after it is written
EnsureDescriptionWritesFirst(description_file, provider, project_name) ==
    IF description_file.exists
    THEN [outcome |-> "return", error |-> "", message |-> NoMessage,
          value |-> Strip(read_text(description_file.text)), invoked |-> FALSE,
          write |-> FALSE, file |-> description_file]
    ELSE IF ~provider.supplied
    THEN [outcome |-> "raise", error |-> "FileNotFoundError",
          message |-> [file |-> DescriptionFilename, project |-> project_name],
          value |-> <<>>, invoked |-> FALSE, write |-> FALSE, file |-> description_file]
    ELSE LET answer == provider.behaviour[project_name] IN
         IF answer.raises
         THEN [outcome |-> "raise", error |-> answer.error, message |-> NoMessage,
               value |-> <<>>, invoked |-> TRUE, write |-> FALSE,
               file |-> description_file]
         ELSE LET generated == Strip(answer.text) IN
              IF generated = <<>>
              THEN [outcome |-> "raise", error |-> "ValueError", message |-> NoMessage,
                    value |-> <<>>, invoked |-> TRUE, write |-> TRUE,
                    file |-> FileWith(generated)]
              ELSE [outcome |-> "return", error |-> "", message |-> NoMessage,
                    value |-> generated, invoked |-> TRUE, write |-> TRUE,
                    file |-> FileWith(generated)]

\* a plausible slip: a supplied provider is consulted even when the file exists
EnsureDescriptionRegenerates(description_file, provider, project_name) ==
    IF description_file.exists /\ ~provider.supplied
    THEN [outcome |-> "return", error |-> "", message |-> NoMessage,
          value |-> Strip(read_text(description_file.text)), invoked |-> FALSE,
          write |-> FALSE, file |-> description_file]
    ELSE IF ~provider.supplied
    THEN [outcome |-> "raise", error |-> "FileNotFoundError",
          message |-> [file |-> DescriptionFilename, project |-> project_name],
          value |-> <<>>, invoked |-> FALSE, write |-> FALSE, file |-> description_file]
    ELSE LET answer == provider.behaviour[project_name] IN
         IF answer.raises
         THEN [outcome |-> "raise", error |-> answer.error, message |-> NoMessage,
               value |-> <<>>, invoked |-> TRUE, write |-> FALSE,
               file |-> description_file]
         ELSE LET generated == Strip(answer.text) IN
              IF generated = <<>>
              THEN [outcome |-> "raise", error |-> "ValueError", message |-> NoMessage,
                    value |-> <<>>, invoked |-> TRUE, write |-> FALSE,
                    file |-> description_file]
              ELSE [outcome |-> "return", error |-> "", message |-> NoMessage,
                    value |-> generated, invoked |-> TRUE, write |-> TRUE,
                    file |-> FileWith(generated)]

\* ensure_description(project_dir, provider): what it returns or raises, whether
\* the provider was called, and the description file it leaves behind
ensure_description(description_file, provider, project_name) ==
    IF description_file.exists
    THEN [outcome |-> "return", error |-> "", message |-> NoMessage,
          value |-> Strip(read_text(description_file.text)), invoked |-> FALSE,
          write |-> FALSE, file |-> description_file]
    ELSE IF ~provider.supplied
    THEN [outcome |-> "raise", error |-> "FileNotFoundError",
          message |-> [file |-> DescriptionFilename, project |-> project_name],
          value |-> <<>>, invoked |-> FALSE, write |-> FALSE, file |-> description_file]
    ELSE LET answer == provider.behaviour[project_name] IN
         IF answer.raises
         THEN [outcome |-> "raise", error |-> answer.error, message |-> NoMessage,
               value |-> <<>>, invoked |-> TRUE, write |-> FALSE,
               file |-> description_file]
         ELSE LET generated == Strip(answer.text) IN
              IF generated = <<>>
              THEN [outcome |-> "raise", error |-> "ValueError", message |-> NoMessage,
                    value |-> <<>>, invoked |-> TRUE, write |-> FALSE,
                    file |-> description_file]
              ELSE [outcome |-> "return", error |-> "", message |-> NoMessage,
                    value |-> generated, invoked |-> TRUE, write |-> TRUE,
                    file |-> FileWith(generated)]

(***************************************************************************)
(* DescSpec: a sequence of ensure_description calls on one project         *)
(***************************************************************************)
\* longest description text, in the file or from a provider
MaxTextLen == 3

\* calls made on the project directory
MaxEnsureCalls == 3

\* a letter and the two line-ending characters, which are also white space
TextChars == {"x", "\r", "\n"}

DescTexts == SeqsUpTo(TextChars, MaxTextLen)

\* the project directory the calls are made on
DescProject == <<"a">>

DescProviders ==
    {NoProvider}
    \cup { Provider([n \in {DescProject} |-> Returns(t)]) : t \in DescTexts }
    \cup { Provider([n \in {DescProject} |-> Raises("RuntimeError")]) }

NoCall ==
    [provider |-> NoProvider, before |-> AbsentFile,
     result |-> [outcome |-> "", error |-> "", message |-> NoMessage, value |-> <<>>,
                 invoked |-> FALSE, write |-> FALSE, file |-> AbsentFile]]

DescStart ==
    /\ ds_call = NoCall
    /\ ds_first = [n |-> 0, text |-> <<>>]
    /\ ds_n = 0

\* the resolver is not exercised
DescIdle == ds_file = AbsentFile /\ DescStart

\* one call ensure_description(project_dir, provider)
EnsureCall(provider) ==
    LET result == ensure_description(ds_file, provider, DescProject) IN
    /\ ds_n < MaxEnsureCalls
    /\ ds_n' = ds_n + 1
    /\ ds_call' = [provider |-> provider, before |-> ds_file, result |-> result]
    /\ ds_file' = result.file
    /\ ds_first' = IF ds_first.n = 0 /\ result.write /\ result.outcome = "return"
                   THEN [n |-> ds_n + 1, text |-> result.value]
                   ELSE ds_first
    /\ UNCHANGED <<tagVars, planVars, sysVars, sessVars>>

DescNext == \E provider \in DescProviders : EnsureCall(provider)

(***************************************************************************)
(* File discovery and the per-project planner: _iter_files, plan_project   *)
(*                                                                         *)
(* A path is the sequence of its components; an entry of a directory       *)
(* listing is [parts, is_file], parts being relative to the listed root.   *)
(***************************************************************************)
ReadmeFilename == <<"r", "e", "a", "d", "m", "e", ".", "m", "d">>

\* the names _iter_files skips
ReservedNames == {DescriptionFilename, ReadmeFilename}

\* Path.name
Name(path) == path[Len(path)]

\* PurePath.relative_to(base), for a path under base
RelativeTo(path, base) == SubSeq(path, Len(base) + 1, Len(path))

\* PurePath.as_posix() of a relative path: the components joined by "/"
RECURSIVE AsPosix(_)
AsPosix(parts) ==
    IF parts = <<>> THEN <<>>
    ELSE IF Len(parts) = 1 THEN parts[1]
    ELSE parts[1] \o <<"/">> \o AsPosix(Tail(parts))

\* the walk of rglob("*") from the directory dir (its components below the
\* project root): the entries of dir in the order scandir lists them, then
\* the same for each subdirectory of dir in that order.  scan holds every
\* entry of the tree; the entries of one directory stand in scan in the order
\* scandir lists them.
RECURSIVE Walk(_, _), WalkEach(_, _)
Walk(scan, dir) ==
    LET here == SelectSeq(scan, LAMBDA e :
                    /\ Len(e.parts) = Len(dir) + 1
                    /\ SubSeq(e.parts, 1, Len(dir)) = dir)
        subdirs == SelectSeq(here, LAMBDA e : ~e.is_file)
    IN  here \o WalkEach(scan, subdirs)

WalkEach(scan, dirs) ==
    IF dirs = <<>> THEN <<>>
    ELSE Walk(scan, Head(dirs).parts) \o WalkEach(scan, Tail(dirs))

\* project_dir.rglob("*"): every entry below project_dir, files and
\* directories, in the order of the walk
rglob(project_dir, listing) ==
    LET walk == Walk(listing, <<>>) IN
    [i \in 1..Len(walk) |->
        [path |-> project_dir \o walk[i].parts, is_file |-> walk[i].is_file]]

\* a plausible slip: the reserved names are compared case-sensitively
RECURSIVE IterFilesCaseSensitive(_)
IterFilesCaseSensitive(entries) ==
    IF entries = <<>> THEN <<>>
    ELSE LET entry == Head(entries)
             rest  == IterFilesCaseSensitive(Tail(entries))
         IN  IF ~entry.is_file THEN rest
             ELSE IF Name(entry.path) \in ReservedNames THEN rest
             ELSE <<entry.path>> \o rest

\* _iter_files, over the entries rglob yields
RECURSIVE _iter_files(_)
_iter_files(entries) ==
    IF entries = <<>> THEN <<>>
    ELSE LET entry == Head(entries)
             rest  == _iter_files(Tail(entries))
         IN  IF ~entry.is_file THEN rest
             ELSE IF Lower(Name(entry.path)) \in ReservedNames THEN rest
             ELSE <<entry.path>> \o rest

\* the entry of the description file in a project's listing, when it exists
DescriptionEntry(description_file) ==
    IF description_file.exists
    THEN <<[parts |-> <<DescriptionFilename>>, is_file |-> TRUE]>>
    ELSE <<>>

\* the loop of plan_project: one FileRecord per discovered file
FileRecords(project_dir, file_paths, rules) ==
    [i \in 1..Len(file_paths) |->
        LET rel_path == AsPosix(RelativeTo(file_paths[i], project_dir)) IN
        [absolute_path |-> file_paths[i],
         relative_path |-> rel_path,
         tags          |-> _collect_tags(rel_path, rules)]]

NoPlan == [project_id |-> <<>>, root |-> <<>>, description |-> <<>>, files |-> <<>>]

\* plan_project(project_dir, rules, description_provider), on a project whose
\* description file is description_file and whose other entries are listing
plan_project(project_dir, listing, description_file, rules, description_provider) ==
    LET described == ensure_description(description_file, description_provider,
                                        Name(project_dir))
    IN  IF described.outcome = "raise"
        THEN [described EXCEPT !.value = NoPlan]
        ELSE LET entries == rglob(project_dir,
                                  DescriptionEntry(described.file) \o listing)
             IN  [described EXCEPT !.value =
                     [project_id  |-> Name(project_dir),
                      root        |-> project_dir,
                      description |-> described.value,
                      files       |-> FileRecords(project_dir, _iter_files(entries),
                                                  rules)]]

\* ProjectPlan.file_count
file_count(plan) == Len(plan.files)

(***************************************************************************)
(* PlanSpec: plan_project on bounded project trees                         *)
(***************************************************************************)
DataRoot == <<<<"d", "a", "t", "a">>>>

PlanProjectDir == DataRoot \o <<<<"a">>>>

\* candidate entries of a project tree
EntryUniverse ==
    << [parts |-> <<<<"R", "E", "A", "D", "M", "E", ".", "m", "d">>>>, is_file |-> TRUE],
       [parts |-> <<<<"a", ".", "p", "y">>>>, is_file |-> TRUE],
       [parts |-> <<<<"d">>>>, is_file |-> FALSE],
       [parts |-> <<<<"d">>, <<"R", "e", "a", "d", "M", "e", ".", "M", "D">>>>,
        is_file |-> TRUE],
       [parts |-> <<<<"d">>, <<"n", ".", "m", "d">>>>, is_file |-> TRUE],
       [parts |-> <<<<"D", "e", "s", "c", "r", "i", "p", "t", "i", "o", "n", ".",
                     "T", "X", "T">>>>, is_file |-> FALSE],
       [parts |-> <<<<"D", "e", "s", "c", "r", "i", "p", "t", "i", "o", "n", ".",
                     "T", "X", "T">>, <<"x">>>>, is_file |-> TRUE] >>

\* the subsequence of seq at the indices in keep
RECURSIVE Pick(_, _, _)
Pick(seq, keep, i) ==
    IF i > Len(seq) THEN <<>>
    ELSE (IF i \in keep THEN <<seq[i]>> ELSE <<>>) \o Pick(seq, keep, i + 1)

\* index sets in which every entry's parent directory is present
ParentClosed(keep) ==
    \A i \in keep : Len(EntryUniverse[i].parts) > 1 =>
        \E j \in keep : /\ ~EntryUniverse[j].is_file
                        /\ EntryUniverse[j].parts = <<EntryUniverse[i].parts[1]>>

\* the trees, each in every order in which rglob can list it: scandir
\* returns the entries of a directory in an order of the file system's choosing
ProjectTrees ==
    UNION { { Walk(scan, <<>>) : scan \in Orders({EntryUniverse[i] : i \in keep}) } :
              keep \in { k \in SUBSET (1..Len(EntryUniverse)) : ParentClosed(k) } }

\* config/ingestion_rules.yaml as the service and PlanSpec load it
RulesDocument ==
    [patterns |-> << [match |-> <<"*", ".", "P", "Y">>, tag |-> "code"],
                     [match |-> <<"d", "/", "*">>, tag |-> "doc"] >>,
     forced   |-> << [path |-> <<"D", "\\", "n", ".", "m", "d">>, tag |-> "pin"] >>]

PlanProviders ==
    { NoProvider,
      Provider([n \in {Name(PlanProjectDir)} |-> Returns(<<" ", "x">>)]),
      Provider([n \in {Name(PlanProjectDir)} |-> Returns(<<" ">>)]) }

PlanStart ==
    pl_out = [done |-> FALSE, outcome |-> "", error |-> "", plan |-> NoPlan]

\* the planner is not exercised
PlanIdle == pl_tree = <<>> /\ pl_file = AbsentFile /\ PlanStart

\* one call plan_project(project_dir, rules, description_provider)
PlanProject(description_provider) ==
    LET result == plan_project(PlanProjectDir, pl_tree, pl_file,
                               from_dict(RulesDocument), description_provider)
    IN  /\ ~pl_out.done
        /\ pl_out' = [done |-> TRUE, outcome |-> result.outcome,
                      error |-> result.error, plan |-> result.value]
        /\ pl_file' = result.file
        /\ UNCHANGED <<pl_tree, tagVars, descVars, sysVars, sessVars>>

PlanNext == \E provider \in PlanProviders : PlanProject(provider)

(***************************************************************************)
(* The batch planner and the ingest endpoint                               *)
(***************************************************************************)
\* str.startswith(".")
StartsWithDot(name) == Len(name) > 0 /\ name[1] = "."

\* discover_projects(data_root), given the order in which iterdir yields
RECURSIVE VisibleDirs(_)
VisibleDirs(entries) ==
    IF entries = <<>> THEN <<>>
    ELSE LET p == Head(entries) IN
         (IF p.is_dir /\ ~StartsWithDot(p.name) THEN <<p.name>> ELSE <<>>)
            \o VisibleDirs(Tail(entries))

discover_projects(root_exists, entries) ==
    IF ~root_exists
    THEN [outcome |-> "raise", error |-> "FileNotFoundError", value |-> <<>>]
    ELSE [outcome |-> "return", error |-> "", value |-> VisibleDirs(entries)]

\* subset = {name for name in (selected_projects or [])}
Subset(selected_projects) ==
    IF selected_projects.given
    THEN {selected_projects.names[i] : i \in 1..Len(selected_projects.names)}
    ELSE {}

\* the loop's test: if subset and project_dir.name not in subset: continue
Skipped(name, selected_projects) ==
    Subset(selected_projects) # {} /\ name \notin Subset(selected_projects)

\* the names a provider may be asked about
AllNames == {<<"a">>, <<"b">>, <<".", "c">>, <<"n">>, <<"g">>}

\* _build_description_provider(payload): the texts that are not empty, by
\* project name; MissingDescriptionError for every other project
_build_description_provider(payload) ==
    LET descriptions == {k \in DOMAIN payload.descriptions :
                            payload.descriptions[k] # <<>>}
    IN  Provider([n \in AllNames |->
                    IF n \in descriptions
                    THEN Returns(payload.descriptions[n])
                    ELSE Raises("MissingDescriptionError")])

\* provider = _build_description_provider(payload) if payload.ensure_descriptions else None
RequestProvider(payload) ==
    IF payload.ensure_descriptions THEN _build_description_provider(payload)
    ELSE NoProvider

NoResponse == [status |-> 0, error |-> "", handled |-> TRUE, project_ids |-> <<>>]

\* the HTTPException(400) of the handler's except clause
ClientError(error) ==
    [status |-> 400, error |-> error, handled |-> TRUE, project_ids |-> <<>>]

\* an exception that leaves the handler: the framework answers 500
Unhandled(error) ==
    [status |-> 500, error |-> error, handled |-> FALSE, project_ids |-> <<>>]

\* except (FileNotFoundError, MissingDescriptionError) around plan_all_projects
ExceptClause(error) ==
    IF error \in {"FileNotFoundError", "MissingDescriptionError"}
    THEN ClientError(error)
    ELSE Unhandled(error)

\* a plausible slip: a failing project is skipped and the plans made so far are
\* carried on to the registry
RaiseKeepsPlans(q, error, name) ==
    IF q.plans = <<>>
    THEN [q EXCEPT !.pc = "idle", !.todo = <<>>, !.failed_at = name,
                   !.raised = error, !.response = ExceptClause(error)]
    ELSE [q EXCEPT !.pc = "update", !.todo = <<>>, !.failed_at = name,
                   !.raised = error]

\* an exception raised inside plan_all_projects: the plans collected so far are
\* dropped with the frame and the handler's except clause answers
RaiseFromPlanning(q, error, name) ==
    [q EXCEPT !.pc = "idle", !.todo = <<>>, !.plans = <<>>, !.failed_at = name,
              !.raised = error, !.response = ExceptClause(error)]

NoOwner == "none"

\* a plausible slip: the registry is touched without taking the lock
LockIgnored(owner, thread) == TRUE

\* with self._lock: the RLock can be taken by thread when free or already its own
LockAvailable(owner, thread) == owner = NoOwner \/ owner = thread

(***************************************************************************)
(* Spec: concurrent ingest requests                                        *)
(***************************************************************************)
\* ingest requests started in one behaviour
MaxCalls == 2

Threads == {"t1", "t2"}

ThreadNo(t) == IF t = "t1" THEN 1 ELSE 2

\* what the data root holds: two projects, a hidden directory, a plain file
DataRootEntries ==
    { [name |-> <<"a">>, is_dir |-> TRUE],
      [name |-> <<"b">>, is_dir |-> TRUE],
      [name |-> <<".", "c">>, is_dir |-> TRUE],
      [name |-> <<"n">>, is_dir |-> FALSE] }

ProjectDirs == {p.name : p \in {e \in DataRootEntries : e.is_dir}}

\* the entries below each project directory, besides its description file
ProjectListing(name) ==
    IF name = <<"a">>
    THEN << [parts |-> <<<<"a", ".", "p", "y">>>>, is_file |-> TRUE],
            [parts |-> <<<<"d">>>>, is_file |-> FALSE],
            [parts |-> <<<<"d">>, <<"n", ".", "m", "d">>>>, is_file |-> TRUE] >>
    ELSE IF name = <<".", "c">>
    THEN << [parts |-> <<<<"x">>>>, is_file |-> TRUE] >>
    ELSE <<>>

NotGiven == [given |-> FALSE, names |-> <<>>]

Given(names) == [given |-> TRUE, names |-> names]

NoTexts == [k \in {} |-> <<>>]

\* the request bodies sent to /v1/ingest
IngestPayloads ==
    { [projects |-> NotGiven, ensure_descriptions |-> FALSE, descriptions |-> NoTexts],
      [projects |-> Given(<<>>), ensure_descriptions |-> TRUE,
       descriptions |-> [k \in {<<"a">>, <<"b">>} |->
                            IF k = <<"a">> THEN <<"x">> ELSE <<"y">>]],
      [projects |-> Given(<< <<"a">>, <<"g">> >>), ensure_descriptions |-> TRUE,
       descriptions |-> [k \in {<<"a">>} |-> <<" ", "z", " ">>]],
      [projects |-> NotGiven, ensure_descriptions |-> TRUE,
       descriptions |-> [k \in {<<"a">>, <<"b">>} |->
                            IF k = <<"a">> THEN <<"x">> ELSE <<" ">>]],
      [projects |-> NotGiven, ensure_descriptions |-> TRUE,
       descriptions |-> [k \in {<<"a">>, <<"b">>} |->
                            IF k = <<"a">> THEN <<>> ELSE <<"y">>]],
      [projects |-> Given(<< <<".", "c">>, <<"g">> >>), ensure_descriptions |-> FALSE,
       descriptions |-> NoTexts] }

NoPending ==
    [outcome |-> "", error |-> "", message |-> NoMessage, value |-> NoPlan,
     invoked |-> FALSE, write |-> FALSE, file |-> AbsentFile]

IdleRequest ==
    [pc |-> "idle", call |-> 0, payload |-> CHOOSE x \in IngestPayloads : TRUE,
     todo |-> <<>>, plans |-> <<>>, pending |-> NoPending, upd |-> 0,
     response |-> NoResponse, raised |-> "", failed_at |-> <<>>,
     on_disk |-> {}, invoked |-> {}, wrote |-> {}, attempted |-> <<>>,
     reg_writes |-> {}]

SysStart ==
    /\ registry = EmptyMap
    /\ lock = NoOwner
    /\ req = [t \in Threads |-> IdleRequest]
    /\ calls = 0
    /\ committed = {}
    /\ update_log = <<>>
    /\ rd = [seen |-> FALSE, projects |-> {}, committed |-> {}]

\* the service is not exercised
SysIdle ==
    /\ config_exists = FALSE
    /\ data_root_exists = FALSE
    /\ description = [n \in ProjectDirs |-> AbsentFile]
    /\ SysStart

\* list(self._projects.values()): the plan objects held, each named by its
\* project and the request that built it
Values(projects) ==
    {[project_id |-> k, call |-> projects[k].call] : k \in DOMAIN projects}

\* load_rules(config_path) when the configuration file exists
LoadedRules == from_dict(RulesDocument)

\* the pool hands a request to the first worker thread that is free
FirstIdle(t) == \A u \in Threads : (req[u].pc = "idle" /\ u # t) => ThreadNo(t) < ThreadNo(u)

\* the turns of the loop that end at "continue": the directories at the head
\* of todo that the subset leaves out are passed over, nothing else happening
RECURSIVE SkipLeading(_, _)
SkipLeading(todo, selected_projects) ==
    IF todo # <<>> /\ Skipped(Head(todo), selected_projects)
    THEN SkipLeading(Tail(todo), selected_projects)
    ELSE todo

\* the loop of plan_all_projects moves on to the next directory it does not
\* skip; once it has no directory left it returns, and lines 119-120 of the
\* handler answer 404 for an empty result
Returned(request) ==
    LET q == [request EXCEPT
                 !.todo = SkipLeading(request.todo, request.payload.projects)]
    IN
    IF q.todo # <<>> THEN q
    ELSE IF q.plans = <<>>
    THEN [q EXCEPT !.pc = "idle",
                   !.response = [status |-> 404, error |-> "", handled |-> TRUE,
                                 project_ids |-> <<>>]]
    ELSE [q EXCEPT !.pc = "update", !.upd = 1]

\* POST /v1/ingest arrives on thread t: lines 105-109 of the handler, with
\* load_rules called outside the try block, then plan_all_projects up to its
\* loop: discover_projects in some iterdir order
StartIngest(t, payload) ==
    LET q == [IdleRequest EXCEPT
                 !.call = calls + 1, !.payload = payload,
                 !.on_disk = {n \in ProjectDirs : description[n].exists}]
    IN  /\ req[t].pc = "idle"
        /\ FirstIdle(t)
        /\ calls < MaxCalls
        /\ calls' = calls + 1
        /\ \E found \in { discover_projects(data_root_exists, entries) :
                             entries \in Orders(DataRootEntries) } :
              req' = [req EXCEPT ![t] =
                        IF ~config_exists
                        THEN [q EXCEPT !.raised = "FileNotFoundError",
                                       !.response = Unhandled("FileNotFoundError")]
                        ELSE IF found.outcome = "raise"
                        THEN RaiseFromPlanning(q, found.error, <<>>)
                        ELSE Returned([q EXCEPT !.pc = "plan", !.todo = found.value])]
        /\ UNCHANGED <<config_exists, data_root_exists, description, registry, lock,
                       committed, update_log, rd, tagVars, descVars, planVars,
                       sessVars>>

\* one turn of the loop of plan_all_projects for a directory that is not
\* skipped, up to the point where ensure_description is about to open the
\* file for writing: the exists() test, the provider call and, when nothing is
\* to be written, the walk of the tree
PlanStep(t) ==
    LET q    == req[t]
        name == Head(q.todo)
        result == plan_project(DataRoot \o <<name>>, ProjectListing(name),
                               description[name], LoadedRules,
                               RequestProvider(q.payload))
        seen == [q EXCEPT !.attempted = Append(q.attempted, name),
                          !.invoked = IF result.invoked THEN q.invoked \cup {name}
                                      ELSE q.invoked]
    IN  /\ q.pc = "plan"
        /\ req' = [req EXCEPT ![t] =
                     IF result.outcome = "raise"
                     THEN RaiseFromPlanning(seen, result.error, name)
                     ELSE IF result.write
                     THEN [seen EXCEPT !.pc = "write", !.pending = result]
                     ELSE Returned([seen EXCEPT !.todo = Tail(q.todo),
                                        !.plans = Append(q.plans, result.value)])]
        /\ UNCHANGED <<config_exists, data_root_exists, description, registry, lock,
                       calls, committed, update_log, rd, tagVars, descVars, planVars,
                       sessVars>>

\* description_file.write_text(generated), first half: open(mode="w") creates
\* the file or truncates it, and the file exists with no text until the write
OpenDescription(t) ==
    LET q    == req[t]
        name == Head(q.todo)
    IN  /\ q.pc = "write"
        /\ description' = [description EXCEPT ![name] = FileWith(<<>>)]
        /\ req' = [req EXCEPT ![t] = [q EXCEPT !.pc = "write_text"]]
        /\ UNCHANGED <<config_exists, data_root_exists, registry, lock, calls,
                       committed, update_log, rd, tagVars, descVars, planVars,
                       sessVars>>

\* a write of text at offset 0 of a file that holds old: what lies beyond the
\* written characters stays
WriteAtStart(old, text) == text \o SubSeq(old, Len(text) + 1, Len(old))

\* description_file.write_text(generated), second half: the text is written
\* through the descriptor opened earlier and the file closed; then the walk
\* and plans.append
WriteDescription(t) ==
    LET q    == req[t]
        name == Head(q.todo)
    IN  /\ q.pc = "write_text"
        /\ description' = [description EXCEPT ![name] =
                              FileWith(WriteAtStart(description[name].text,
                                                    q.pending.file.text))]
        /\ req' = [req EXCEPT ![t] =
                     Returned([q EXCEPT !.pc = "plan", !.todo = Tail(q.todo),
                                        !.pending = NoPending,
                                        !.wrote = q.wrote \cup {name},
                                        !.plans = Append(q.plans, q.pending.value)])]
        /\ UNCHANGED <<config_exists, data_root_exists, registry, lock, calls,
                       committed, update_log, rd, tagVars, descVars, planVars,
                       sessVars>>

\* registry.update(plans): under the lock, one assignment per plan; the lock is
\* taken with the first assignment and released with the last, and the handler
\* then builds its 200 response from plans
UpdateStep(t) ==
    LET q    == req[t]
        plan == q.plans[q.upd]
        last == q.upd = Len(q.plans)
        after == [k \in DOMAIN registry \cup {plan.project_id} |->
                     IF k = plan.project_id THEN [plan |-> plan, call |-> q.call]
                     ELSE registry[k]]
    IN  /\ q.pc = "update"
        /\ LockAvailable(lock, t)
        /\ registry' = after
        /\ lock' = IF last THEN NoOwner ELSE t
        /\ committed' = IF last THEN Values(after) ELSE committed
        /\ update_log' = IF last
                         THEN Append(update_log, [call |-> q.call, plans |-> q.plans])
                         ELSE update_log
        /\ req' = [req EXCEPT ![t] =
                     IF last
                     THEN [q EXCEPT !.pc = "idle", !.upd = 0,
                                    !.reg_writes = q.reg_writes \cup {plan.project_id},
                                    !.response =
                                        [status |-> 200, error |-> "", handled |-> TRUE,
                                         project_ids |->
                                            [i \in 1..Len(q.plans) |->
                                                q.plans[i].project_id]]]
                     ELSE [q EXCEPT !.upd = q.upd + 1,
                                    !.reg_writes = q.reg_writes \cup {plan.project_id}]]
        /\ UNCHANGED <<config_exists, data_root_exists, description, calls, rd,
                       tagVars, descVars, planVars,
                       sessVars>>

\* registry.list() from another thread (the chat endpoint's _auto_lock_project)
ListRegistry ==
    /\ LockAvailable(lock, "reader")
    /\ rd' = [seen |-> TRUE, projects |-> Values(registry),
              committed |-> committed]
    /\ rd' # rd
    /\ UNCHANGED <<config_exists, data_root_exists, description, registry, lock, req,
                   calls, committed, update_log, tagVars, descVars, planVars,
                       sessVars>>

Next ==
    \/ \E t \in Threads, payload \in IngestPayloads : StartIngest(t, payload)
    \/ \E t \in Threads : PlanStep(t)
    \/ \E t \in Threads : OpenDescription(t)
    \/ \E t \in Threads : WriteDescription(t)
    \/ \E t \in Threads : UpdateStep(t)
    \/ ListRegistry

(***************************************************************************)
(* The session store and the inline commands (src/src/api/session.py)      *)
(***************************************************************************)
Digits == {"0", "1", "2", "3", "4", "5", "6", "7", "8", "9"}

Letters ==
    {UpperChars[i] : i \in 1..Len(UpperChars)}
    \cup {LowerChars[i] : i \in 1..Len(LowerChars)}

\* \w of _COMMAND_PATTERN, on ASCII text
WordChars == Letters \cup Digits \cup {"_"}

\* [A-Za-z0-9_\-] of _TAG_PATTERN
TagChars == WordChars \cup {"-"}

\* a greedy "+": the length of the longest run of chars that starts at s[i]
RECURSIVE RunLength(_, _, _)
RunLength(s, i, chars) ==
    IF i > Len(s) \/ s[i] \notin chars THEN 0
    ELSE 1 + RunLength(s, i + 1, chars)

\* identify_command returns None
NoCommand == <<>>

COMMAND_CLEAR == <<"c", "l", "e", "a", "r">>

\* _COMMAND_PATTERN.match(message.strip()), then group(1).lower()
identify_command(message) ==
    LET m == Strip(message)
        n == RunLength(m, 2, WordChars)
    IN  IF Len(m) >= 1 /\ m[1] = "/" /\ n > 0
        THEN Lower(SubSeq(m, 2, n + 1))
        ELSE NoCommand

\* _TAG_PATTERN applied from s[i] on, left to right: the characters outside
\* the matches (what sub("") keeps) and group(1) of every match (findall)
RECURSIVE ScanTags(_, _)
ScanTags(s, i) ==
    IF i > Len(s) THEN [kept |-> <<>>, tags |-> <<>>]
    ELSE LET n == RunLength(s, i + 1, TagChars) IN
         IF s[i] = "@" /\ n > 0
         THEN LET rest == ScanTags(s, i + n + 1)
              IN  [kept |-> rest.kept,
                   tags |-> <<SubSeq(s, i + 1, i + n)>> \o rest.tags]
         ELSE LET rest == ScanTags(s, i + 1)
              IN  [kept |-> <<s[i]>> \o rest.kept, tags |-> rest.tags]

\* extract_filters: (cleaned, [tag.lower() for tag in matches])
extract_filters(message) ==
    LET found == ScanTags(message, 1)
    IN  [cleaned |-> Strip(found.kept),
         filters |-> [k \in 1..Len(found.tags) |-> Lower(found.tags[k])]]

\* project_lock: Optional[str] = None
NoProject == "None"

\* SessionState(session_id=session_id): no project, empty history
SessionState(session_id) ==
    [session_id |-> session_id, project_lock |-> NoProject, history |-> <<>>]

\* ChatMessage(role, content, filters), tagged with the request that appended
\* it (call) so that equal texts of different requests stay distinct
ChatMessage(role, content, filters, call) ==
    [role |-> role, content |-> content, filters |-> filters, call |-> call]

\* SessionState.append on the object objs[ref]
append(objs, ref, message) ==
    [objs EXCEPT ![ref].history = Append(@, message)]

\* session_id is not a key of _sessions
NoEntry == 0

\* SessionStore.get, its body one critical section of _lock: setdefault
\* returns the object held, or stores and returns a fresh one.  The store is
\* [sessions, objs]; the result is the store afterwards and the object.
get(store, session_id) ==
    IF store.sessions[session_id] # NoEntry
    THEN [store |-> store, state |-> store.sessions[session_id]]
    ELSE LET ref == Len(store.objs) + 1
         IN  [store |-> [sessions |-> [store.sessions EXCEPT ![session_id] = ref],
                         objs |-> Append(store.objs, SessionState(session_id))],
              state |-> ref]

\* SessionStore.clear, its body one critical section of _lock: a fresh object
\* replaces whatever the store held
clear(store, session_id) ==
    LET ref == Len(store.objs) + 1
    IN  [store |-> [sessions |-> [store.sessions EXCEPT ![session_id] = ref],
                    objs |-> Append(store.objs, SessionState(session_id))],
         state |-> ref]

\* apply_command: "ok" with the answer text, or ValueError
apply_command(store, session_id, command) ==
    IF command = COMMAND_CLEAR
    THEN [outcome |-> "return", store |-> clear(store, session_id).store]
    ELSE [outcome |-> "raise", store |-> store]

(***************************************************************************)
(* SessSpec: concurrent lock and chat requests (routes.py, lines 137-205)  *)
(***************************************************************************)
\* lock and chat requests started in one behaviour
MaxRequests == 2

SessionIds == {"s", "u"}

ProjectIds == {"a", "b"}

\* message texts: blank; the clear command, padded and in capitals; a command
\* that is not supported; a filter and nothing else; a question; a question
\* with a filter
ChatMessages ==
    { <<" ">>,
      <<" ", "/", "C", "L", "E", "A", "R">>,
      <<"/", "x">>,
      <<"@", "t">>,
      <<"q">>,
      <<"q", " ", "@", "T", "-", "1">> }

\* LockRequest(session_id, project_id)
LockPayloads ==
    { [session_id |-> s, project_id |-> p, message |-> <<>>, auto_lock |-> FALSE] :
        s \in SessionIds, p \in ProjectIds }

\* ChatRequest(session_id, message, project_id=None, auto_lock=False)
ChatPayloads ==
    { [session_id |-> s, project_id |-> p, message |-> m, auto_lock |-> a] :
        s \in SessionIds, p \in {NoProject, "", "a"}, m \in ChatMessages,
        a \in BOOLEAN }

NoRef == 0

NoChatResponse == [status |-> 0, project_id |-> NoProject]

\* a worker thread between requests
IdleChat ==
    [pc |-> "idle", call |-> 0, kind |-> "",
     payload |-> CHOOSE x \in LockPayloads : TRUE,
     state |-> NoRef, target |-> NoRef, project_id |-> NoProject,
     cleaned |-> <<>>, filters |-> <<>>, response |-> NoChatResponse]

\* the handler returned a response or raised: HTTP status and, for a
\* ChatResponse, its project_id
Answered(status, project_id) ==
    [IdleChat EXCEPT !.response = [status |-> status, project_id |-> project_id]]

\* the pool hands a request to the first worker thread that is free
SessFirstIdle(t) ==
    \A u \in Threads : (ss_req[u].pc = "idle" /\ u # t) => ThreadNo(t) < ThreadNo(u)

\* the SessionStore as one value
Store == [sessions |-> ss_sessions, objs |-> ss_objs]

\* rag._config: unset until configure_pipeline is called, then a pipeline that
\* answers or one whose retriever raises NotImplementedError
Pipelines == {"unset", "answers", "unimplemented"}

\* rag.generate_answer, lines 83-89, on the _config it finds on entry:
\* RuntimeError when configure_pipeline was never called, NotImplementedError
\* from a retriever that is not implemented, otherwise the documents come
\* back and the function goes on to the language model
generate_answer(pipeline) ==
    IF pipeline = "unset" THEN [outcome |-> "raise", error |-> "RuntimeError"]
    ELSE IF pipeline = "unimplemented"
    THEN [outcome |-> "raise", error |-> "NotImplementedError"]
    ELSE [outcome |-> "return", error |-> ""]

\* rag.configure_pipeline(config): _config = config, at any time
ConfigurePipeline(config) ==
    /\ ss_pipeline # config
    /\ ss_pipeline' = config
    /\ UNCHANGED <<ss_sessions, ss_objs, ss_req, ss_n, ss_settled, ss_kept,
                   ss_stray, tagVars, descVars, planVars, sysVars>>

\* the text of an answer
AnswerText == <<"!">>

\* _auto_lock_project: 404 when registry.list() is empty; otherwise
\* router.select_project raises NotImplementedError and the answer is 501
_auto_lock_project(projects) == IF projects = {} THEN 404 ELSE 501

\* a write to the object ref by request call: it is recorded when the store
\* holds another object for the session at that moment
Stray(ref, session_id, call) ==
    IF ref # ss_sessions[session_id] THEN ss_stray \cup {call} ELSE ss_stray

\* POST /v1/session/lock arrives on thread t: set_project is entered and its
\* first statement, state = self.get(session_id), runs
LockSession(t, payload) ==
    LET got == get(Store, payload.session_id)
    IN  /\ ss_req[t].pc = "idle"
        /\ SessFirstIdle(t)
        /\ ss_n < MaxRequests
        /\ ss_n' = ss_n + 1
        /\ ss_sessions' = got.store.sessions
        /\ ss_objs' = got.store.objs
        /\ ss_req' = [ss_req EXCEPT ![t] =
                        [IdleChat EXCEPT !.pc = "sp_assign", !.call = ss_n + 1,
                                         !.kind = "lock", !.payload = payload,
                                         !.target = got.state,
                                         !.project_id = payload.project_id]]
        /\ ss_settled' = [ss_settled EXCEPT ![payload.session_id] = NoProject]
        /\ UNCHANGED <<ss_pipeline, ss_kept, ss_stray,
                       tagVars, descVars, planVars, sysVars>>

\* set_project, second statement, outside the lock: state.project_lock =
\* project_id on the object fetched earlier; then return state
SetProjectAssign(t) ==
    LET q   == ss_req[t]
        sid == q.payload.session_id
    IN  /\ q.pc = "sp_assign"
        /\ ss_objs' = [ss_objs EXCEPT ![q.target].project_lock = q.project_id]
        /\ ss_settled' = [ss_settled EXCEPT ![sid] = q.project_id]
        /\ ss_stray' = Stray(q.target, sid, q.call)
        /\ ss_req' = [ss_req EXCEPT ![t] =
                        IF q.kind = "lock"
                        THEN [q EXCEPT !.pc = "respond", !.state = q.target]
                        ELSE [q EXCEPT !.pc = "append_user"]]
        /\ UNCHANGED <<ss_sessions, ss_pipeline, ss_n, ss_kept,
                       tagVars, descVars, planVars, sysVars>>

\* lock_session builds its ChatResponse from state.project_lock
LockRespond(t) ==
    LET q == ss_req[t]
    IN  /\ q.pc = "respond"
        /\ ss_req' = [ss_req EXCEPT ![t] =
                        Answered(200, ss_objs[q.state].project_lock)]
        /\ UNCHANGED <<ss_sessions, ss_objs, ss_pipeline, ss_n, ss_settled,
                       ss_kept, ss_stray, tagVars, descVars, planVars, sysVars>>

\* POST /v1/chat with a message that is blank, or blank once its filters are
\* removed: 400, the store untouched
ChatRejects(t, payload) ==
    LET raw_message == Strip(payload.message)
    IN  /\ ss_req[t].pc = "idle"
        /\ SessFirstIdle(t)
        /\ ss_n < MaxRequests
        /\ \/ raw_message = <<>>
           \/ /\ identify_command(raw_message) = NoCommand
              /\ extract_filters(raw_message).cleaned = <<>>
        /\ ss_n' = ss_n + 1
        /\ ss_req' = [ss_req EXCEPT ![t] = Answered(400, NoProject)]
        /\ UNCHANGED <<ss_sessions, ss_objs, ss_pipeline, ss_settled, ss_kept,
                       ss_stray, tagVars, descVars, planVars, sysVars>>

\* POST /v1/chat with a slash command: apply_command, which clears the
\* session or raises ValueError (400)
ChatCommand(t, payload) ==
    LET raw_message == Strip(payload.message)
        command == identify_command(raw_message)
        sid     == payload.session_id
        done    == apply_command(Store, sid, command)
        cleared == done.outcome = "return"
    IN  /\ ss_req[t].pc = "idle"
        /\ SessFirstIdle(t)
        /\ ss_n < MaxRequests
        /\ raw_message # <<>>
        /\ command # NoCommand
        /\ ss_n' = ss_n + 1
        /\ ss_sessions' = done.store.sessions
        /\ ss_objs' = done.store.objs
        /\ ss_req' = [ss_req EXCEPT ![t] =
                        Answered(IF cleared THEN 200 ELSE 400, NoProject)]
        /\ ss_settled' = IF cleared THEN [ss_settled EXCEPT ![sid] = NoProject]
                         ELSE ss_settled
        /\ ss_kept' = IF cleared THEN {k \in ss_kept : k.session_id # sid}
                      ELSE ss_kept
        /\ UNCHANGED <<ss_pipeline, ss_stray, tagVars, descVars, planVars, sysVars>>

\* POST /v1/chat with a question: lines 150-173, up to and including
\* state = sessions.get(payload.session_id)
ChatGet(t, payload) ==
    LET raw_message == Strip(payload.message)
        parsed  == extract_filters(raw_message)
        got     == get(Store, payload.session_id)
    IN  /\ ss_req[t].pc = "idle"
        /\ SessFirstIdle(t)
        /\ ss_n < MaxRequests
        /\ raw_message # <<>>
        /\ identify_command(raw_message) = NoCommand
        /\ parsed.cleaned # <<>>
        /\ ss_n' = ss_n + 1
        /\ ss_sessions' = got.store.sessions
        /\ ss_objs' = got.store.objs
        /\ ss_req' = [ss_req EXCEPT ![t] =
                        [IdleChat EXCEPT !.pc = "choose", !.call = ss_n + 1,
                                         !.kind = "chat", !.payload = payload,
                                         !.state = got.state,
                                         !.cleaned = parsed.cleaned,
                                         !.filters = parsed.filters]]
        /\ UNCHANGED <<ss_pipeline, ss_settled, ss_kept, ss_stray,
                       tagVars, descVars, planVars, sysVars>>

\* bool(project_id) for an Optional[str]: None and the empty string are false
ProjectTruthy(project_id) == project_id # NoProject /\ project_id # ""

\* chat, lines 175-185: project_id = payload.project_id or state.project_lock,
\* read outside the store's lock from the object fetched at line 173, and the
\* branch taken on it
ChatChoose(t) ==
    LET q == ss_req[t]
        project_id == IF ProjectTruthy(q.payload.project_id)
                      THEN q.payload.project_id
                      ELSE ss_objs[q.state].project_lock
    IN  /\ q.pc = "choose"
        /\ ss_req' = [ss_req EXCEPT ![t] =
                        IF project_id = NoProject
                        THEN IF q.payload.auto_lock
                             THEN [q EXCEPT !.pc = "auto_lock"]
                             ELSE Answered(409, NoProject)
                        ELSE IF ProjectTruthy(q.payload.project_id)
                        THEN [q EXCEPT !.pc = "sp_get", !.project_id = project_id]
                        ELSE [q EXCEPT !.pc = "append_user",
                                       !.project_id = project_id]]
        /\ UNCHANGED <<ss_sessions, ss_objs, ss_pipeline, ss_n, ss_settled,
                       ss_kept, ss_stray, tagVars, descVars, planVars, sysVars>>

\* chat, line 178: _auto_lock_project takes registry.list() under the
\* registry's lock and answers 404 or 501; set_project at line 179 is never
\* reached
ChatAutoLock(t) ==
    LET q == ss_req[t]
    IN  /\ q.pc = "auto_lock"
        /\ LockAvailable(lock, t)
        /\ ss_req' = [ss_req EXCEPT ![t] =
                        Answered(_auto_lock_project(Values(registry)), NoProject)]
        /\ UNCHANGED <<ss_sessions, ss_objs, ss_pipeline, ss_n, ss_settled,
                       ss_kept, ss_stray, tagVars, descVars, planVars, sysVars>>

\* chat, line 185: sessions.set_project(session_id, payload.project_id) is
\* entered and its first statement, state = self.get(session_id), runs
ChatSetProject(t) ==
    LET q   == ss_req[t]
        sid == q.payload.session_id
        got == get(Store, sid)
    IN  /\ q.pc = "sp_get"
        /\ ss_sessions' = got.store.sessions
        /\ ss_objs' = got.store.objs
        /\ ss_req' = [ss_req EXCEPT ![t] =
                        [q EXCEPT !.pc = "sp_assign", !.target = got.state]]
        /\ ss_settled' = [ss_settled EXCEPT ![sid] = NoProject]
        /\ UNCHANGED <<ss_pipeline, ss_n, ss_kept, ss_stray,
                       tagVars, descVars, planVars, sysVars>>

\* chat, line 187: state.append("user", cleaned_message, filters=filters) on
\* the object fetched at line 173
AppendUser(t) ==
    LET q   == ss_req[t]
        sid == q.payload.session_id
    IN  /\ q.pc = "append_user"
        /\ ss_objs' = append(ss_objs, q.state,
                             ChatMessage("user", q.cleaned, q.filters, q.call))
        /\ ss_stray' = Stray(q.state, sid, q.call)
        /\ ss_req' = [ss_req EXCEPT ![t] = [q EXCEPT !.pc = "answer"]]
        /\ UNCHANGED <<ss_sessions, ss_pipeline, ss_n, ss_settled, ss_kept,
                       tagVars, descVars, planVars, sysVars>>

\* chat, line 190: rag.generate_answer is entered; it reads _config and
\* waits in retriever.get_relevant_documents.  An error ends the request: a
\* NotImplementedError is answered 501 and any other error 500
AnswerRetrieve(t) ==
    LET q   == ss_req[t]
        sid == q.payload.session_id
        answer == generate_answer(ss_pipeline)
    IN  /\ q.pc = "answer"
        /\ ss_kept' = IF answer.outcome = "return" THEN ss_kept
                      ELSE ss_kept \cup {[call |-> q.call, session_id |-> sid]}
        /\ ss_req' = [ss_req EXCEPT ![t] =
                        IF answer.outcome = "return"
                        THEN [q EXCEPT !.pc = "retrieving"]
                        ELSE IF answer.error = "NotImplementedError"
                        THEN Answered(501, NoProject)
                        ELSE Answered(500, NoProject)]
        /\ UNCHANGED <<ss_sessions, ss_objs, ss_pipeline, ss_n, ss_settled,
                       ss_stray, tagVars, descVars, planVars, sysVars>>

\* rag.generate_answer, lines 90-94: the documents are back; the context, the
\* prompt and the language model are taken from _config as it is now, which
\* every pipeline provides, and the function waits in llm.invoke
AnswerInvoke(t) ==
    LET q == ss_req[t]
    IN  /\ q.pc = "retrieving"
        /\ ss_pipeline # "unset"
        /\ ss_req' = [ss_req EXCEPT ![t] = [q EXCEPT !.pc = "invoking"]]
        /\ UNCHANGED <<ss_sessions, ss_objs, ss_pipeline, ss_n, ss_settled,
                       ss_kept, ss_stray, tagVars, descVars, planVars, sysVars>>

\* llm.invoke returns and with it generate_answer; chat, lines 199-205:
\* state.append("assistant", answer, filters=filters) on the object fetched at
\* line 173, and the response
AnswerReturn(t) ==
    LET q   == ss_req[t]
        sid == q.payload.session_id
    IN  /\ q.pc = "invoking"
        /\ ss_objs' = append(ss_objs, q.state,
                             ChatMessage("assistant", AnswerText, q.filters,
                                         q.call))
        /\ ss_stray' = Stray(q.state, sid, q.call)
        /\ ss_kept' = ss_kept \cup {[call |-> q.call, session_id |-> sid]}
        /\ ss_req' = [ss_req EXCEPT ![t] = Answered(200, q.project_id)]
        /\ UNCHANGED <<ss_sessions, ss_pipeline, ss_n, ss_settled,
                       tagVars, descVars, planVars, sysVars>>

SessNext ==
    \/ \E t \in Threads, payload \in LockPayloads : LockSession(t, payload)
    \/ \E t \in Threads : SetProjectAssign(t)
    \/ \E t \in Threads : LockRespond(t)
    \/ \E t \in Threads, payload \in ChatPayloads : ChatRejects(t, payload)
    \/ \E t \in Threads, payload \in ChatPayloads : ChatCommand(t, payload)
    \/ \E t \in Threads, payload \in ChatPayloads : ChatGet(t, payload)
    \/ \E t \in Threads : ChatChoose(t)
    \/ \E t \in Threads : ChatAutoLock(t)
    \/ \E config \in Pipelines \ {"unset"} : ConfigurePipeline(config)
    \/ \E t \in Threads : ChatSetProject(t)
    \/ \E t \in Threads : AppendUser(t)
    \/ \E t \in Threads : AnswerRetrieve(t)
    \/ \E t \in Threads : AnswerInvoke(t)
    \/ \E t \in Threads : AnswerReturn(t)

\* no session exists and no request is in progress
SessStart ==
    /\ ss_sessions = [s \in SessionIds |-> NoEntry]
    /\ ss_objs = <<>>
    /\ ss_req = [t \in Threads |-> IdleChat]
    /\ ss_n = 0
    /\ ss_settled = [s \in SessionIds |-> NoProject]
    /\ ss_kept = {}
    /\ ss_stray = {}

\* the chat endpoints are not exercised
SessIdle == ss_pipeline = "unset" /\ SessStart

\* the service after one ingest request for project a, whose description
\* file existed, has returned
AfterIngest ==
    LET plan == plan_project(DataRoot \o << <<"a">> >>, ProjectListing(<<"a">>),
                             FileWith(<<"w", " ">>), LoadedRules, NoProvider).value
        held == [k \in {<<"a">>} |-> [plan |-> plan, call |-> 1]]
    IN  /\ config_exists = TRUE
        /\ data_root_exists = TRUE
        /\ description = [n \in ProjectDirs |->
                             IF n = <<"a">> THEN FileWith(<<"w", " ">>)
                             ELSE AbsentFile]
        /\ registry = held
        /\ lock = NoOwner
        /\ req = [t \in Threads |-> IdleRequest]
        /\ calls = 1
        /\ committed = Values(held)
        /\ update_log = << [call |-> 1, plans |-> <<plan>>] >>
        /\ rd = [seen |-> FALSE, projects |-> {}, committed |-> {}]

(***************************************************************************)
(* TagSpec: the classifier on bounded inputs                               *)
(***************************************************************************)
\* longest relative path classified
MaxPathLen == 3

\* most entries in the "patterns" section of the configuration document
MaxRules == 2

\* upper case, both separators and white space all occur in the paths
PathChars == {"B", "/", "\\", " "}

TagPaths == SeqsUpTo(PathChars, MaxPathLen)

\* entries of the "patterns" section; the last two lack a key and are skipped
PatternItems ==
    { [match |-> <<"*", "B">>, tag |-> "code"],
      [match |-> <<"b", "/", "?">>, tag |-> "doc"],
      [match |-> <<"[", "!", "b", "]", "*">>, tag |-> "code"],
      [match |-> <<"*">>],
      [tag |-> "doc"] }

\* entries of the "forced" section; the last one has an empty tag and is skipped
ForcedItems ==
    << [path |-> <<"b", "/", "b">>, tag |-> "pin"],
       [path |-> <<" ", "B", "\\", "B">>, tag |-> "doc"],
       [path |-> <<"b">>, tag |-> ""] >>

\* the "forced" sections tried
ForcedLists ==
    { Pick(ForcedItems, keep, 1) : keep \in SUBSET (1..Len(ForcedItems)) }
    \cup { <<ForcedItems[2], ForcedItems[1]>> }

TagConfigs ==
    { [patterns |-> ps, forced |-> fs] :
        ps \in SeqsUpTo(PatternItems, MaxRules), fs \in ForcedLists }
    \cup { [k \in {} |-> <<>>] }

TagStart ==
    /\ tg_path = <<>>
    /\ tg_out = [done |-> FALSE, lowered |-> <<>>, key |-> <<>>, tags |-> {}]

\* the classifier is not exercised
TagIdle == tg_cfg = [k \in {} |-> <<>>] /\ TagStart


\* one call of _collect_tags(relative_path, from_dict(tg_cfg))
Classify(relative_path) ==
    LET rules == from_dict(tg_cfg) IN
    /\ ~tg_out.done
    /\ tg_path' = relative_path
    /\ tg_out' = [done    |-> TRUE,
                  lowered |-> Lowered(relative_path),
                  key     |-> _normalize_rel_path(relative_path),
                  tags    |-> _collect_tags(relative_path, rules)]
    /\ UNCHANGED <<tg_cfg, descVars, planVars, sysVars, sessVars>>

TagNext == \E p \in TagPaths : Classify(p)

(***************************************************************************)
(* The specifications                                                      *)
(***************************************************************************)
TagInit ==
    tg_cfg \in TagConfigs /\ TagStart /\ DescIdle /\ PlanIdle /\ SysIdle /\ SessIdle

TagSpec == TagInit /\ [][TagNext]_vars

DescInit ==
    /\ ds_file \in {AbsentFile} \cup {FileWith(t) : t \in DescTexts}
    /\ DescStart
    /\ TagIdle
    /\ PlanIdle
    /\ SysIdle
    /\ SessIdle

DescSpec == DescInit /\ [][DescNext]_vars

PlanInit ==
    /\ pl_tree \in ProjectTrees
    /\ pl_file \in {AbsentFile, FileWith(<<"x", " ">>)}
    /\ PlanStart
    /\ TagIdle
    /\ DescIdle
    /\ SysIdle
    /\ SessIdle

PlanSpec == PlanInit /\ [][PlanNext]_vars

Init ==
    /\ config_exists \in BOOLEAN
    /\ data_root_exists \in BOOLEAN
    /\ description = [n \in ProjectDirs |-> AbsentFile]
    /\ SysStart
    /\ TagIdle
    /\ DescIdle
    /\ PlanIdle
    /\ SessIdle

Spec == Init /\ [][Next]_vars

SessInit ==
    /\ ss_pipeline = "unset"
    /\ SessStart
    /\ SysIdle \/ AfterIngest
    /\ TagIdle
    /\ DescIdle
    /\ PlanIdle

SessSpec == SessInit /\ [][SessNext]_vars

(***************************************************************************)
(* Claims about the description resolver (DescSpec)                        *)
(***************************************************************************)
\* what the provider of the last call answers for the project
LastAnswer == ds_call.provider.behaviour[DescProject]

\* C1: description resolution is idempotent over a sequence of calls on one
\* project directory.  Whenever the description file exists at the time of a
\* call, the call returns without invoking the provider and leaves the file
\* as it was; and once a call has auto-generated and persisted a text, every
\* later call, whatever its provider, returns exactly the text that call
\* returned, without invoking the provider.
C1_ResolutionIdempotent ==
    /\ (ds_n > 0 /\ ds_call.before.exists) =>
          /\ ds_call.result.outcome = "return"
          /\ ~ds_call.result.invoked
          /\ ~ds_call.result.write
          /\ ds_file = ds_call.before
    /\ ds_first.n > 0 => ds_file = FileWith(ds_first.text)
    /\ (ds_first.n > 0 /\ ds_n > ds_first.n) =>
          /\ ds_call.result.outcome = "return"
          /\ ds_call.result.value = ds_first.text
          /\ ~ds_call.result.invoked

\* C2: on a project with no description file, ensure_description fails
\* without creating the file in both failure cases: with no provider it raises
\* FileNotFoundError naming the file and the project and calls no provider;
\* with a provider whose text is empty after trimming it raises ValueError.
\* The file is created only for a non-empty trimmed provider text, and what is
\* persisted equals what is returned.
C2_FailureCreatesNothing ==
    (ds_n > 0 /\ ~ds_call.before.exists) =>
        LET r == ds_call.result
            p == ds_call.provider
        IN  /\ ~p.supplied =>
                  /\ r.outcome = "raise"
                  /\ r.error = "FileNotFoundError"
                  /\ r.message = [file |-> DescriptionFilename, project |-> DescProject]
                  /\ ~r.invoked
                  /\ ~ds_file.exists
            /\ (p.supplied /\ ~LastAnswer.raises /\ Strip(LastAnswer.text) = <<>>) =>
                  /\ r.outcome = "raise"
                  /\ r.error = "ValueError"
                  /\ ~ds_file.exists
            /\ ds_file.exists <=>
                  (p.supplied /\ ~LastAnswer.raises /\ Strip(LastAnswer.text) # <<>>)
            /\ ds_file.exists =>
                  /\ r.outcome = "return"
                  /\ r.value = Strip(LastAnswer.text)
                  /\ ds_file.text = r.value

\* a provider answered with white space only: ValueError, and still no file
C2_Witness ==
    /\ ds_n > 0
    /\ ~ds_call.before.exists
    /\ ds_call.provider.supplied
    /\ ds_call.result.error = "ValueError"
    /\ LastAnswer.text # <<>>
    /\ ~ds_file.exists

(***************************************************************************)
(* Claims about the per-project planner (PlanSpec)                         *)
(***************************************************************************)
\* everything under the project root once plan_project has returned
PlannedListing == DescriptionEntry(pl_file) \o pl_tree

\* the regular files under the root whose name is not a reserved one in any case
NonReservedFiles ==
    { PlanProjectDir \o PlannedListing[i].parts :
        i \in { k \in 1..Len(PlannedListing) :
                  /\ PlannedListing[k].is_file
                  /\ Lower(Name(PlannedListing[k].parts)) # DescriptionFilename
                  /\ Lower(Name(PlannedListing[k].parts)) # ReadmeFilename } }

\* C3: when the description resolves, the plan's FileRecords correspond
\* one-to-one to the regular files at any depth under the project root whose
\* name, compared case-insensitively, is not description.txt or readme.md:
\* each such file appears exactly once, nothing else appears, and a project
\* holding only its description file has file_count = 0.
C3_OneRecordPerNonReservedFile ==
    (pl_out.done /\ pl_out.outcome = "return") =>
        LET files == pl_out.plan.files IN
        /\ \A f \in NonReservedFiles :
              Cardinality({i \in 1..Len(files) : files[i].absolute_path = f}) = 1
        /\ \A i \in 1..Len(files) :
              /\ files[i].absolute_path \in NonReservedFiles
              /\ files[i].relative_path
                    = AsPosix(RelativeTo(files[i].absolute_path, PlanProjectDir))
        /\ file_count(pl_out.plan) = Cardinality(NonReservedFiles)
        /\ pl_tree = <<>> => file_count(pl_out.plan) = 0
        /\ pl_out.plan.project_id = Name(PlanProjectDir)

\* the full tree: reserved names in other cases, nested, and a directory that
\* carries a reserved name; three files remain
C3_Witness ==
    /\ pl_out.done
    /\ pl_out.outcome = "return"
    /\ Len(pl_tree) = Len(EntryUniverse)
    /\ file_count(pl_out.plan) = 3
    /\ \E i \in 1..3 : pl_out.plan.files[i].relative_path = <<"d", "/", "n", ".", "m", "d">>
                       /\ pl_out.plan.files[i].tags = {"doc", "pin"}

(***************************************************************************)
(* Claims about the tag classifier (TagSpec)                               *)
(***************************************************************************)
CfgPatterns == IF "patterns" \in DOMAIN tg_cfg THEN tg_cfg.patterns ELSE <<>>

CfgForced == IF "forced" \in DOMAIN tg_cfg THEN tg_cfg.forced ELSE <<>>

\* the tags of the well-formed pattern entries whose glob matches tg_path,
\* case-insensitively
MatchingPatternTags ==
    { CfgPatterns[i].tag :
        i \in { k \in 1..Len(CfgPatterns) :
                  /\ DOMAIN CfgPatterns[k] = {"match", "tag"}
                  /\ fnmatch(Lower(tg_path), Lower(CfgPatterns[k].match)) } }

\* the tags of the well-formed forced entries registered for tg_path
RegisteredForcedTags ==
    { CfgForced[i].tag :
        i \in { k \in 1..Len(CfgForced) :
                  /\ PathTruthy(CfgForced[k])
                  /\ TagTruthy(CfgForced[k])
                  /\ _normalize_rel_path(CfgForced[k].path)
                        = _normalize_rel_path(tg_path) } }

\* C4: the classifier's tag set is exactly the union of the tags of the
\* pattern rules whose glob matches the path and the forced tags registered
\* for the path; it is empty when neither source contributes, and it does not
\* depend on the order of the pattern rules.
C4_TagsAreUnionOfSources ==
    tg_out.done =>
        /\ tg_out.tags = MatchingPatternTags \cup RegisteredForcedTags
        /\ LET rules == from_dict(tg_cfg) IN
           _collect_tags(tg_path, [rules EXCEPT !.patterns = Reverse(rules.patterns)])
              = tg_out.tags

\* two overlapping patterns and two forced entries all contribute to one path
C4_Witness ==
    /\ tg_out.done
    /\ tg_path = <<"B", "/", "B">>
    /\ MatchingPatternTags = {"code", "doc"}
    /\ RegisteredForcedTags = {"pin", "doc"}
    /\ tg_out.tags = {"code", "pin", "doc"}

\* C5: the string the glob rules are matched against equals the normalized
\* key used for the forced-mapping lookup, and normalizing is idempotent.
C5_SameNormalizedForm ==
    tg_out.done =>
        /\ tg_out.lowered = tg_out.key
        /\ _normalize_rel_path(tg_out.key) = tg_out.key

(***************************************************************************)
(* Claims about the batch planner, the ingest endpoint and the registry    *)
(* (Spec)                                                                  *)
(***************************************************************************)
\* the non-hidden immediate subdirectories of the data root
VisibleProjects ==
    {e.name : e \in {x \in DataRootEntries : x.is_dir /\ x.name[1] # "."}}

\* the elements of a sequence
Range(seq) == {seq[i] : i \in 1..Len(seq)}

\* the project identifiers of a sequence of plans
PlanIds(plans) == {plans[i].project_id : i \in 1..Len(plans)}

\* C6: when a list of project identifiers is given, whatever the list,
\* processing is restricted to the visible directories named in it: no
\* directory outside the list is planned, has the provider invoked or its
\* description written; a successful call returns exactly one plan per visible
\* directory named in the list; names without a directory raise no error; and
\* when no directory remains the result is empty.
C6_SubsetRestrictsProcessing ==
    \A t \in Threads :
        LET q == req[t]
            subset == Range(q.payload.projects.names)
            wanted == VisibleProjects \cap subset
        IN  (q.call > 0 /\ q.payload.projects.given /\ config_exists
                /\ data_root_exists) =>
               /\ Range(q.attempted) \cup q.invoked \cup q.wrote \subseteq wanted
               /\ PlanIds(q.plans) \subseteq wanted
               /\ q.failed_at # <<>> => q.failed_at \in wanted
               /\ q.response.status = 200 =>
                     /\ Range(q.response.project_ids) = wanted
                     /\ Len(q.response.project_ids) = Cardinality(wanted)
               /\ (wanted = {} /\ q.pc = "idle") => q.response.status = 404

\* C7: batch planning is all-or-nothing.  When description resolution fails
\* for a project, the call ends with the error ensure_description raised, no
\* plan is returned, not even those built earlier in the call, and the
\* request writes nothing to the registry.
C7_BatchAllOrNothing ==
    \A t \in Threads :
        LET q == req[t] IN
        (q.call > 0 /\ q.failed_at # <<>>) =>
            /\ q.pc = "idle"
            /\ q.response.status \notin {0, 200}
            /\ q.raised \in {"FileNotFoundError", "MissingDescriptionError", "ValueError"}
            /\ q.response.error = q.raised
            /\ q.plans = <<>>
            /\ q.response.project_ids = <<>>
            /\ q.reg_writes = {}
            /\ \A k \in DOMAIN registry : registry[k].call # q.call
            /\ \A i \in 1..Len(update_log) : update_log[i].call # q.call

\* project a was planned, then b failed, while the registry holds an earlier
\* request's plans
C7_Witness ==
    \E t \in Threads :
        /\ req[t].attempted = << <<"a">>, <<"b">> >>
        /\ req[t].failed_at = <<"b">>
        /\ req[t].response.status = 400
        /\ DOMAIN registry = {<<"a">>}
        /\ registry[<<"a">>].call # req[t].call

\* C8: every NotFound condition of an ingest request (configuration file
\* absent, data root absent, description absent with no provider) is answered
\* by the handler's 400 and leaves the registry alone.
C8_NotFoundIsClientError ==
    \A t \in Threads :
        (req[t].call > 0 /\ req[t].raised = "FileNotFoundError") =>
            /\ req[t].response.status = 400
            /\ req[t].response.handled
            /\ req[t].reg_writes = {}

\* the entry the finished updates leave for project k: the plan of the last
\* update whose batch holds k
LastWritten(k) ==
    LET holders == {i \in 1..Len(update_log) : k \in PlanIds(update_log[i].plans)}
        i == CHOOSE x \in holders : \A y \in holders : y <= x
        j == CHOOSE x \in 1..Len(update_log[i].plans) :
                 update_log[i].plans[x].project_id = k
    IN  [plan |-> update_log[i].plans[j], call |-> update_log[i].call]

\* C9: registry updates are atomic with respect to each other and to readers.
\* list() never returns part of a batch: what it returns is the registry as a
\* finished update left it, and it stays that way whatever is written later.
\* Only the lock holder is in the middle of a batch.  When no update is in
\* progress every entry is the whole plan of the last update that wrote its
\* project (last writer wins).
C9_UpdatesAtomicLastWriterWins ==
    /\ rd.seen => rd.projects = rd.committed
    /\ \A t \in Threads : (req[t].pc = "update" /\ req[t].upd > 1) => lock = t
    /\ lock # NoOwner => (req[lock].pc = "update" /\ req[lock].upd > 1)
    /\ lock = NoOwner =>
          /\ DOMAIN registry = UNION {PlanIds(update_log[i].plans) :
                                         i \in 1..Len(update_log)}
          /\ \A k \in DOMAIN registry : registry[k] = LastWritten(k)

\* two requests planned at the same time and both wrote a and b; the one that
\* started later updated first, a reader saw its batch whole, and the other
\* request's batch then replaced it whole
C9_Witness ==
    /\ Len(update_log) = 2
    /\ update_log[1].call = 2
    /\ update_log[2].call = 1
    /\ req["t2"].call = 2
    /\ rd.seen
    /\ rd.projects = {[project_id |-> <<"a">>, call |-> 2],
                      [project_id |-> <<"b">>, call |-> 2]}
    /\ lock = NoOwner
    /\ DOMAIN registry = {<<"a">>, <<"b">>}
    /\ \A k \in DOMAIN registry : registry[k].call = 1

\* C10: the projects of a batch are processed one after another and a
\* description is persisted inside its project's step.  When the call aborts
\* at a project, the descriptions it generated for earlier projects are on
\* disk, and for the projects after the failing one the provider was not
\* invoked and nothing was written; and no call invokes the provider for a
\* project whose description was on disk when the call began, so a repeat of
\* the call leaves the earlier projects' provider alone.
C10_EarlierPersistLaterUntouched ==
    \A t \in Threads :
        LET q == req[t]
            later == VisibleProjects \ Range(q.attempted)
        IN  /\ \A n \in q.wrote : description[n].exists
            /\ q.invoked \cap q.on_disk = {}
            /\ q.wrote \subseteq q.invoked
            /\ (q.call > 0 /\ q.failed_at # <<>>) =>
                  /\ q.attempted[Len(q.attempted)] = q.failed_at
                  /\ q.failed_at \notin q.wrote
                  /\ \A n \in later : n \notin q.invoked /\ n \notin q.wrote
                  /\ \A i \in 1..(Len(q.attempted) - 1) :
                        description[q.attempted[i]].exists

\* the call generated a's description, then aborted at b: a's file is on disk,
\* b has none
C10_Witness ==
    \E t \in Threads :
        /\ req[t].failed_at = <<"b">>
        /\ req[t].wrote = {<<"a">>}
        /\ req[t].invoked = {<<"a">>, <<"b">>}
        /\ description[<<"a">>] = FileWith(<<"x">>)
        /\ ~description[<<"b">>].exists

\* the SessionState object the store holds for session_id
Held(session_id) == ss_sessions[session_id]

\* once a set_project(s, p) has returned, and no clear(s) and no other
\* set_project(s, ...) began after it, get(s).project_lock is p
SetProjectSettled ==
    \A s \in SessionIds :
        ss_settled[s] # NoProject =>
            /\ Held(s) # NoEntry
            /\ ss_objs[Held(s)].project_lock = ss_settled[s]

\* every message appended by a finished chat request, since whose end no clear
\* of its session began, is in the history of the object the store holds
ChatMessagesHeld ==
    \A k \in ss_kept : \A ref \in 1..Len(ss_objs) :
        \A i \in 1..Len(ss_objs[ref].history) :
            ss_objs[ref].history[i].call = k.call => ref = Held(k.session_id)

\* no write went to an object the store no longer held
WritesLandOnHeldState == ss_stray = {}

\* C11: session mutations are atomic with respect to SessionStore.clear under
\* any interleaving of requests for one session id: a returned set_project
\* is what get then shows, the messages of a finished chat request are in the
\* history the store holds, and no write lands on an object the store has
\* replaced.
C11_SessionMutationsAtomic ==
    /\ SetProjectSettled
    /\ ChatMessagesHeld
    /\ WritesLandOnHeldState

====
